---------------------------- MODULE Spec2Model ----------------------------
(***************************************************************************)
(* Model of apiclient-rs: ApiClient::get / ApiClient::post, the retry loop *)
(* of execute_request and the classification done by handle_response       *)
(* (src/src/client.rs), with the error kinds of src/src/error.rs.          *)
(*                                                                         *)
(* Every logical call is a process with its own program counter; the       *)
(* suspension points of the async code (send().await, text().await,        *)
(* sleep().await) separate the actions.  The HTTP transport and the server *)
(* are the environment: they answer each send with a transport error or    *)
(* with any response of Responses, and the read of a body may fail.        *)
(*                                                                         *)
(* The operations that are functions of their arguments (the URL, the      *)
(* pairs of serialize_params, deserialize_response, the Debug renderings   *)
(* of src/src/auth.rs and the request written to the log) are studied      *)
(* under UtilSpec, which draws the arguments and applies each once.        *)
(***************************************************************************)
EXTENDS Naturals, Sequences, FiniteSets

\* ---------------------------------------------------------------- bounds

\* The calls that run, concurrently, on the one shared client.
Calls == {1, 2}

\* Largest number of '/' put at the end of the base_url given to new().
MaxSlashes == 2

\* Largest number of fields of a parameter object given to serialize_params.
MaxFields == 3

\* ------------------------------------------------------ program constants

\* Mutant of InitialRetries: one attempt too many.
InitialRetriesOffByOne == 3 + 1

\* let mut retries = 3;
InitialRetries == 3

\* StatusCode::TOO_MANY_REQUESTS
TOO_MANY_REQUESTS == 429

\* sleep(Duration::from_secs(2))
BackoffSecs == 2

\* the text handle_response substitutes for a body it cannot read
Placeholder == "Failed to read response body"

\* ------------------------------------------------------------ environment

\* Statuses the server may answer with: 2xx, 3xx, 4xx, 429 and 5xx.
Statuses == {200, 201, 304, 404, 429, 500}

BodyA == "{\"name\":\"a\",\"age\":30}"
BodyB == "{\"name\":\"b\",\"age\":7}"
BodyMalformed == "{\"name\": }"
BodyWrongShape == "[]"
BodyEmpty == ""

\* Body texts the server may send.
Bodies == {BodyA, BodyB, BodyMalformed, BodyWrongShape, BodyEmpty}

\* A completed HTTP response: its status and the body the server sent.
Responses == [status : Statuses, body : Bodies]

NoResponse == [status |-> 0, body |-> ""]

\* The body handed to post: none, one that serializes, one whose Serialize
\* implementation fails.
PostBodies == {"None", "Serializable", "Unserializable"}

\* ---------------------------------------------------------- ApiClientError

NoResult == [kind |-> "None"]
Ok(v) == [kind |-> "Ok", value |-> v]
Network == [kind |-> "Network"]
JsonParse == [kind |-> "JsonParse"]
DeserializeError == [kind |-> "DeserializeError"]
RateLimit(body) == [kind |-> "RateLimit", body |-> body]
ApiError(status, body) == [kind |-> "ApiError", status |-> status, body |-> body]
MaxRetriesReached == [kind |-> "MaxRetriesReached"]

\* DeserializeError(String) with its message.
DeserializeErrorWith(msg) == [kind |-> "DeserializeError", msg |-> msg]

\* ------------------------------------------------------------ ApiClient::new

\* Mutant of TrimEndMatches: strip_suffix('/'), one '/' at most is removed.
TrimEndOnce(s) ==
    IF Len(s) > 0 /\ s[Len(s)] = "/" THEN SubSeq(s, 1, Len(s) - 1) ELSE s

\* str::trim_end_matches('/') on a string held as a sequence of characters.
RECURSIVE TrimEndMatches(_)
TrimEndMatches(s) ==
    IF Len(s) > 0 /\ s[Len(s)] = "/"
    THEN TrimEndMatches(SubSeq(s, 1, Len(s) - 1))
    ELSE s

RECURSIVE Slashes(_)
Slashes(n) == IF n = 0 THEN << >> ELSE <<"/">> \o Slashes(n - 1)

\* The base_url arguments given to new(): a host with 0..MaxSlashes '/' after it.
BaseUrlInputs == { <<"h">> \o Slashes(n) : n \in 0..MaxSlashes }

AuthKinds == {"None", "HeaderAuth", "BearerAuth"}

\* ApiClient::new(base_url, auth_strategy)
New(base_url, auth_strategy) ==
    [base_url |-> TrimEndMatches(base_url), auth_strategy |-> auth_strategy]

\* ------------------------------------------------- the URL of get and post

\* str::trim_start_matches('/')
RECURSIVE TrimStartMatches(_)
TrimStartMatches(s) ==
    IF Len(s) > 0 /\ s[1] = "/"
    THEN TrimStartMatches(SubSeq(s, 2, Len(s)))
    ELSE s

\* format!("{}/{}", self.base_url, endpoint.trim_start_matches('/'))
Url(base_url, endpoint) == base_url \o <<"/">> \o TrimStartMatches(endpoint)

\* The base_url arguments of the URL study: hosts, with and without a path,
\* followed by 0..MaxSlashes '/'.
UrlBases ==
    { h \o Slashes(n) : h \in { <<"h">>, <<"h", "/", "v">>, <<"h", ":", "/", "/", "x">> },
                        n \in 0..MaxSlashes }

\* The endpoint arguments: 0..MaxSlashes '/' and then a path, which may be
\* empty or end with '/'.
Endpoints ==
    { Slashes(n) \o p : n \in 0..MaxSlashes,
                        p \in { << >>, <<"a">>, <<"a", "/", "b">>, <<"a", "/">> } }

\* ------------------------------------------------------------- AuthStrategy

\* HeaderAuth::new(header, api_key) and BearerAuth::new(token)
HeaderAuth(header, api_key) == [kind |-> "HeaderAuth", header |-> header, api_key |-> api_key]
BearerAuth(token) == [kind |-> "BearerAuth", token |-> token]

HeaderNames == {"x-api-key", "authorization"}
Secrets == {"s3cret", "hunter2", "Bearer abc", ""}

\* The strategies built with secret s: one HeaderAuth per header name and
\* one BearerAuth.
Strategies(s) == { HeaderAuth(h, s) : h \in HeaderNames } \cup { BearerAuth(s) }

\* The same strategy built with another secret.
WithSecret(auth, s) ==
    IF auth.kind = "HeaderAuth" THEN HeaderAuth(auth.header, s) ELSE BearerAuth(s)

\* Mutant of FmtDebug: #[derive(Debug)] on the two structs.
FmtDebugDerived(auth) ==
    IF auth.kind = "HeaderAuth"
    THEN "HeaderAuth { header: \"" \o auth.header \o "\", api_key: \"" \o auth.api_key \o "\" }"
    ELSE "BearerAuth { token: \"" \o auth.token \o "\" }"

\* impl Debug for HeaderAuth / BearerAuth: debug_struct(name).field(.., &"***")
FmtDebug(auth) ==
    IF auth.kind = "HeaderAuth"
    THEN "HeaderAuth { " \o auth.header \o ": \"***\" }"
    ELSE "BearerAuth { token: \"***\" }"

\* impl Debug for dyn AuthStrategy: write!(f, "AuthStrategy")
FmtDebugDyn(auth) == "AuthStrategy"

\* AuthStrategy::apply_auth: the header added to the request.  HeaderAuth
\* calls RequestBuilder::header, BearerAuth calls bearer_auth, which marks
\* the Authorization value sensitive.
ApplyAuth(auth) ==
    IF auth.kind = "HeaderAuth"
    THEN [name |-> auth.header, value |-> auth.api_key, sensitive |-> FALSE]
    ELSE [name |-> "authorization", value |-> "Bearer " \o auth.token, sensitive |-> TRUE]

\* {:?} of the RequestBuilder: method, url and headers; a header value
\* marked sensitive is written as Sensitive, any other in clear.
RequestDebug(verb, header) ==
    "RequestBuilder { method: " \o verb \o ", url: \"h/a\", headers: {\""
        \o header.name \o "\": "
        \o (IF header.sensitive THEN "Sensitive" ELSE "\"" \o header.value \o "\"")
        \o "} }"

\* What get and post write to the log and to the tracing spans for a
\* request with that auth applied: the info! line with the URL, then in
\* post the debug! line with the request, in get the span of
\* execute_request, whose field `request` is the request's {:?}.
LogOutput(verb, auth) ==
    IF verb = "POST"
    THEN << "Sending POST request to URL: h/a",
            "Sending request " \o RequestDebug(verb, ApplyAuth(auth)) >>
    ELSE << "Sending GET request to URL: h/a",
            "execute_request{request=" \o RequestDebug(verb, ApplyAuth(auth)) \o "}" >>

\* ------------------------------------------------ ApiClient::serialize_params

\* The fields a parameter object may have, each with the JSON value it
\* serializes to: strings, numbers, a bool, an array, an object and null.
FieldValue(key) ==
    CASE key = "q" -> [t |-> "String", s |-> "x"]
      [] key = "page" -> [t |-> "Number", n |-> 2]
      [] key = "limit" -> [t |-> "Number", n |-> 30]
      [] key = "active" -> [t |-> "Bool", b |-> TRUE]
      [] key = "tags" -> [t |-> "Array"]
      [] key = "filter" -> [t |-> "Object"]
      [] key = "cursor" -> [t |-> "Null"]

\* The keys in the order of str's Ord, the order of a BTreeMap<String, _>.
KeysSorted == <<"active", "cursor", "filter", "limit", "page", "q", "tags">>

Keys == { KeysSorted[i] : i \in 1..Len(KeysSorted) }

KeyRank(key) == CHOOSE i \in 1..Len(KeysSorted) : KeysSorted[i] = key

\* A parameter object: its fields in the order the struct declares (and
\* serde_json::to_string writes) them, no key twice.
ParamObjects ==
    UNION { { f \in [1..n -> Keys] : \A i, j \in 1..n : i # j => f[i] # f[j] } :
            n \in 0..MaxFields }

\* serde_json::Map<String, Value> built by from_str from the serialized
\* object.  The map is a BTreeMap, iterated in key order, unless the build
\* turns on serde_json's preserve_order feature (an IndexMap, iterated in
\* the order of the text).
RECURSIVE InsertByKey(_, _)
InsertByKey(sorted, key) ==
    IF sorted = << >> THEN <<key>>
    ELSE IF KeyRank(key) < KeyRank(Head(sorted))
         THEN <<key>> \o sorted
         ELSE <<Head(sorted)>> \o InsertByKey(Tail(sorted), key)

RECURSIVE BTreeOrder(_)
BTreeOrder(fields) ==
    IF fields = << >> THEN << >>
    ELSE InsertByKey(BTreeOrder(SubSeq(fields, 1, Len(fields) - 1)), fields[Len(fields)])

MapIter(fields, preserve_order) ==
    IF preserve_order THEN fields ELSE BTreeOrder(fields)

\* u64::to_string
RECURSIVE NumberToString(_)
NumberToString(n) ==
    LET digit(d) == CASE d = 0 -> "0" [] d = 1 -> "1" [] d = 2 -> "2" [] d = 3 -> "3"
                      [] d = 4 -> "4" [] d = 5 -> "5" [] d = 6 -> "6" [] d = 7 -> "7"
                      [] d = 8 -> "8" [] d = 9 -> "9"
    IN  IF n < 10 THEN digit(n) ELSE NumberToString(n \div 10) \o digit(n % 10)

\* convert_json_to_pairs: one pair for each String, Bool and Number value
\* of the map, in the order the map iterates; every other value is skipped.
RECURSIVE ConvertJsonToPairs(_)
ConvertJsonToPairs(keys) ==
    IF keys = << >> THEN << >>
    ELSE LET v == FieldValue(Head(keys))
             rest == ConvertJsonToPairs(Tail(keys))
         IN  CASE v.t = "String" -> << <<Head(keys), v.s>> >> \o rest
               [] v.t = "Bool" -> << <<Head(keys), IF v.b THEN "true" ELSE "false">> >> \o rest
               [] v.t = "Number" -> << <<Head(keys), NumberToString(v.n)>> >> \o rest
               [] OTHER -> rest

\* serialize_params(Some(params))
SerializeParams(fields, preserve_order) ==
    ConvertJsonToPairs(MapIter(fields, preserve_order))

\* ------------------------------------------------- ApiClient::handle_response

\* --------------------------------------------- ApiClient::deserialize_response

\* serde_json::Value: a string, a number (its literal), null, or an object,
\* whose entries stand in the order the map iterates them.
JString(s) == [t |-> "String", v |-> s, fields |-> << >>]
JNumber(lit) == [t |-> "Number", v |-> lit, fields |-> << >>]
JNull == [t |-> "Null", v |-> "", fields |-> << >>]
JObject(entries) == [t |-> "Object", v |-> "", fields |-> entries]

Entry(key, value) == [key |-> key, value |-> value]

\* The target types: struct User { name: String, address: Address } and
\* struct Address { zip: u32 }.
TString == [t |-> "String", name |-> "", fields |-> << >>]
TU32 == [t |-> "U32", name |-> "", fields |-> << >>]
TStruct(name, fields) == [t |-> "Struct", name |-> name, fields |-> fields]
AddressType == TStruct("Address", << [key |-> "zip", ty |-> TU32] >>)
UserType == TStruct("User", << [key |-> "name", ty |-> TString],
                               [key |-> "address", ty |-> AddressType] >>)

\* The responses handed to deserialize_response: every scalar, and objects
\* with or without `name` and `address`, each of any kind; an address
\* object with or without `zip`, and with a key Address does not have.
ScalarValues == { JString("x"), JNumber("7"), JNumber("30"), JNull }

AddressValues ==
    ScalarValues
    \cup { JObject(<< >>) }
    \cup { JObject(<< Entry("zip", z) >>) : z \in ScalarValues }
    \cup { JObject(<< Entry("city", JString("x")), Entry("zip", z) >>) : z \in ScalarValues }

ResponseValues ==
    LET names == { << >> } \cup { << Entry("name", n) >> : n \in ScalarValues }
        addresses == { << >> } \cup { << Entry("address", a) >> : a \in AddressValues }
    IN  ScalarValues
        \cup { JObject(a \o n) : a \in addresses, n \in names }
        \cup { JObject(n \o a) : a \in addresses, n \in names }

\* serde::de::Unexpected and the visitor's `expecting`, as displayed.  The
\* backquotes serde writes around a number or a field name are written as
\* apostrophes here.
Unexpected(val) ==
    CASE val.t = "String" -> "string \"" \o val.v \o "\""
      [] val.t = "Number" -> "integer '" \o val.v \o "'"
      [] val.t = "Null" -> "null"
      [] val.t = "Object" -> "map"

Expecting(ty) ==
    CASE ty.t = "String" -> "a string"
      [] ty.t = "U32" -> "u32"
      [] ty.t = "Struct" -> "struct " \o ty.name

\* The u32 of a number literal.
ParseU32(lit) == CASE lit = "7" -> 7 [] lit = "30" -> 30

\* T::deserialize on a Value, tracked by serde_path_to_error: the decoded
\* value, or the first error met and the path of the value being decoded
\* when it was raised.  A struct visits the entries of the map in their
\* order, ignores keys it does not have, and reports a missing field once
\* every entry has been visited.
RECURSIVE Deserialize(_, _, _)
Deserialize(ty, val, path) ==
    LET invalid == [ok |-> FALSE, path |-> path,
                    original |-> "invalid type: " \o Unexpected(val)
                                    \o ", expected " \o Expecting(ty)]
        FieldIndex(k) == CHOOSE j \in 1..Len(ty.fields) : ty.fields[j].key = k
        known == { i \in 1..Len(val.fields) :
                      \E j \in 1..Len(ty.fields) : ty.fields[j].key = val.fields[i].key }
        Sub(i) == Deserialize(ty.fields[FieldIndex(val.fields[i].key)].ty,
                              val.fields[i].value, Append(path, val.fields[i].key))
        bad == { i \in known : ~Sub(i).ok }
        missing == { j \in 1..Len(ty.fields) :
                        \A i \in 1..Len(val.fields) : val.fields[i].key # ty.fields[j].key }
        EntryOf(k) == CHOOSE i \in known : val.fields[i].key = k
    IN  CASE ty.t = "String" ->
                IF val.t = "String" THEN [ok |-> TRUE, value |-> val.v] ELSE invalid
          [] ty.t = "U32" ->
                IF val.t = "Number" THEN [ok |-> TRUE, value |-> ParseU32(val.v)] ELSE invalid
          [] ty.t = "Struct" ->
                IF val.t # "Object" THEN invalid
                ELSE IF bad # {}
                THEN Sub(CHOOSE i \in bad : \A k \in bad : i <= k)
                ELSE IF missing # {}
                THEN [ok |-> FALSE, path |-> path,
                      original |-> "missing field '"
                          \o ty.fields[CHOOSE j \in missing : \A k \in missing : j <= k].key
                          \o "'"]
                ELSE [ok |-> TRUE,
                      value |-> [k \in { ty.fields[j].key : j \in 1..Len(ty.fields) } |->
                                    Sub(EntryOf(k)).value]]

\* Display of serde_path_to_error::Path: the keys joined by dots.
RECURSIVE PathDisplay(_)
PathDisplay(path) ==
    IF Len(path) = 0 THEN "."
    ELSE IF Len(path) = 1 THEN path[1]
    ELSE path[1] \o "." \o PathDisplay(Tail(path))

\* Display of serde_path_to_error::Error: the path and a colon before the
\* original message, unless the path is empty.
ErrorDisplay(err) ==
    IF Len(err.path) = 0 THEN err.original
    ELSE PathDisplay(err.path) \o ": " \o err.original

\* Mutant of DeserializeResponse: serde_json::from_value, which does not
\* track the path.
DeserializeResponseFromValue(response) ==
    LET r == Deserialize(UserType, response, << >>)
    IN  IF r.ok THEN Ok(r.value) ELSE DeserializeErrorWith(r.original)

\* deserialize_response::<User>(response)
DeserializeResponse(response) ==
    LET r == Deserialize(UserType, response, << >>)
    IN  IF r.ok THEN Ok(r.value) ELSE DeserializeErrorWith(ErrorDisplay(r))

\* Mutant of IsSuccess: 200 alone counts as success.
IsSuccessOnlyOk(status) == status = 200

\* StatusCode::is_success
IsSuccess(status) == status >= 200 /\ status < 300

\* Mutant of ReadText: unwrap_or_default(), an empty text for an unread body.
ReadTextOrDefault(body, readOk) == IF readOk THEN body ELSE ""

\* response.text().await.unwrap_or_else(|_| "Failed to read response body")
ReadText(body, readOk) == IF readOk THEN body ELSE Placeholder

\* serde_json::from_str::<T>(&body) for T = { name: String, age: u32 }:
\* the decoded value, or an error for a text that is not JSON or not a T.
FromStr(body) ==
    CASE body = BodyA -> [ok |-> TRUE, value |-> [name |-> "a", age |-> 30]]
      [] body = BodyB -> [ok |-> TRUE, value |-> [name |-> "b", age |-> 7]]
      [] OTHER -> [ok |-> FALSE]

\* Mutant of HandleResponse: server errors (5xx) are classified as rate
\* limiting too.
HandleResponseServerErrorsRetried(status, body) ==
    IF IsSuccess(status)
    THEN IF FromStr(body).ok THEN Ok(FromStr(body).value) ELSE JsonParse
    ELSE IF status = TOO_MANY_REQUESTS \/ status >= 500
         THEN RateLimit(body)
         ELSE ApiError(status, body)

\* Mutant of HandleResponse: the status is classified before the body is
\* parsed, and a 2xx body that does not parse is reported as ApiError.
HandleResponseParseFailureIsApiError(status, body) ==
    IF IsSuccess(status) /\ FromStr(body).ok
    THEN Ok(FromStr(body).value)
    ELSE IF status = TOO_MANY_REQUESTS
         THEN RateLimit(body)
         ELSE ApiError(status, body)

\* The result of handle_response for a response of that status whose body
\* text was read as `body`.
HandleResponse(status, body) ==
    IF IsSuccess(status)
    THEN IF FromStr(body).ok THEN Ok(FromStr(body).value) ELSE JsonParse
    ELSE IF status = TOO_MANY_REQUESTS
         THEN RateLimit(body)
         ELSE ApiError(status, body)

\* --------------------------------------------------------------------- state

VARIABLES
    util,       \* the standalone operation under study, its input and output
    client,     \* the shared ApiClient: base_url and auth_strategy
    pc,         \* pc[c]: where call c is
    method,     \* method[c]: "GET" or "POST" once the call has started
    body,       \* body[c]: the body argument of post ("None" for get)
    reqOk,      \* reqOk[c]: the RequestBuilder holds a request (it built)
    retries,    \* retries[c]: the local `retries` of execute_request
    resp,       \* resp[c]: the response last handed to handle_response
    readOk,     \* readOk[c]: whether response.text() read the body of resp[c]
    result,     \* result[c]: what the call returned to its caller
    log         \* log[c]: history of the call: sends, responses, errors, sleeps

vars == <<util, client, pc, method, body, reqOk, retries, resp, readOk, result, log>>

\* The events of a call's history.
SendEv == [ev |-> "send"]
ResponseEv(status) == [ev |-> "response", status |-> status]
ErrorEv == [ev |-> "error"]
SleepEv == [ev |-> "sleep", secs |-> BackoffSecs]

Logged(c, e) == [log EXCEPT ![c] = Append(@, e)]

\* No standalone operation is under study while calls run.
NoUtil == [op |-> "none"]

Init ==
    /\ util = NoUtil
    /\ client \in { New(b, a) : b \in BaseUrlInputs, a \in AuthKinds }
    /\ pc = [c \in Calls |-> "idle"]
    /\ method = [c \in Calls |-> "none"]
    /\ body = [c \in Calls |-> "None"]
    /\ reqOk = [c \in Calls |-> TRUE]
    /\ retries = [c \in Calls |-> 0]
    /\ resp = [c \in Calls |-> NoResponse]
    /\ readOk = [c \in Calls |-> TRUE]
    /\ result = [c \in Calls |-> NoResult]
    /\ log = [c \in Calls |-> << >>]

\* ------------------------------------------------------------ ApiClient::get

\* get builds the request (the builder holds an error instead when the URL
\* or a header did not build), applies auth and enters execute_request,
\* which sets retries = 3.
Get(c) ==
    /\ pc[c] = "idle"
    /\ \E built \in BOOLEAN : reqOk' = [reqOk EXCEPT ![c] = built]
    /\ method' = [method EXCEPT ![c] = "GET"]
    /\ retries' = [retries EXCEPT ![c] = InitialRetries]
    /\ pc' = [pc EXCEPT ![c] = "loop"]
    /\ UNCHANGED <<util, client, body, resp, readOk, result, log>>

\* ------------------------------------------------ ApiClient::execute_request

\* while retries > 0 { request.try_clone().unwrap().send() ...
LoopSend(c) ==
    /\ pc[c] = "loop"
    /\ retries[c] > 0
    /\ reqOk[c]
    /\ log' = Logged(c, SendEv)
    /\ pc' = [pc EXCEPT ![c] = "sending"]
    /\ UNCHANGED <<util, client, method, body, reqOk, retries, resp, readOk, result>>

\* try_clone() is None for a builder that holds no request: unwrap() panics
\* and the call never returns a result.
LoopCloneFail(c) ==
    /\ pc[c] = "loop"
    /\ retries[c] > 0
    /\ ~reqOk[c]
    /\ pc' = [pc EXCEPT ![c] = "panicked"]
    /\ UNCHANGED <<util, client, method, body, reqOk, retries, resp, readOk, result, log>>

\* Mutant of LoopExhausted: the last attempt's RateLimit error is returned.
LoopExhaustedReturnsLastError(c) ==
    /\ pc[c] = "loop"
    /\ retries[c] = 0
    /\ result' = [result EXCEPT ![c] = RateLimit(ReadText(resp[c].body, readOk[c]))]
    /\ pc' = [pc EXCEPT ![c] = "done"]
    /\ UNCHANGED <<util, client, method, body, reqOk, retries, resp, readOk, log>>

\* the loop ends with retries = 0: Err(MaxRetriesReached)
LoopExhausted(c) ==
    /\ pc[c] = "loop"
    /\ retries[c] = 0
    /\ result' = [result EXCEPT ![c] = MaxRetriesReached]
    /\ pc' = [pc EXCEPT ![c] = "done"]
    /\ UNCHANGED <<util, client, method, body, reqOk, retries, resp, readOk, log>>

\* Mutant of SendError: in get a transport failure is retried like a 429.
SendErrorRetried(c) ==
    /\ pc[c] = "sending"
    /\ log' = Logged(c, ErrorEv)
    /\ IF method[c] = "GET"
       THEN /\ retries' = [retries EXCEPT ![c] = @ - 1]
            /\ pc' = [pc EXCEPT ![c] = "sleeping"]
            /\ UNCHANGED result
       ELSE /\ result' = [result EXCEPT ![c] = Network]
            /\ pc' = [pc EXCEPT ![c] = "done"]
            /\ UNCHANGED retries
    /\ UNCHANGED <<util, client, method, body, reqOk, resp, readOk>>

\* send().await fails: map_err(Network) and `?` return it (get and post).
SendError(c) ==
    /\ pc[c] = "sending"
    /\ result' = [result EXCEPT ![c] = Network]
    /\ log' = Logged(c, ErrorEv)
    /\ pc' = [pc EXCEPT ![c] = "done"]
    /\ UNCHANGED <<util, client, method, body, reqOk, retries, resp, readOk>>

\* send().await completes with a response; handle_response takes it and
\* awaits its text.
SendResponse(c) ==
    /\ pc[c] = "sending"
    /\ \E r \in Responses : resp' = [resp EXCEPT ![c] = r]
    /\ pc' = [pc EXCEPT ![c] = "reading"]
    /\ UNCHANGED <<util, client, method, body, reqOk, retries, readOk, result, log>>

\* Mutant of ExecuteMatch: the retry budget is one counter kept on the
\* client, so a 429 answered to one call counts every running call down.
ExecuteMatchSharedBudget(c) ==
    /\ pc[c] = "reading"
    /\ method[c] = "GET"
    /\ \E ok \in BOOLEAN :
         LET out == HandleResponse(resp[c].status, ReadText(resp[c].body, ok))
         IN  /\ readOk' = [readOk EXCEPT ![c] = ok]
             /\ IF out.kind = "RateLimit"
                THEN /\ retries' = [d \in Calls |-> IF retries[d] > 0 THEN retries[d] - 1 ELSE 0]
                     /\ pc' = [pc EXCEPT ![c] = "sleeping"]
                     /\ UNCHANGED result
                ELSE /\ result' = [result EXCEPT ![c] = out]
                     /\ pc' = [pc EXCEPT ![c] = "done"]
                     /\ UNCHANGED retries
    /\ log' = Logged(c, ResponseEv(resp[c].status))
    /\ UNCHANGED <<util, client, method, body, reqOk, resp>>

\* Mutant of ExecuteMatch: the RateLimit arm sleeps only while a retry is
\* left, and goes straight to the end of the loop after the last attempt.
ExecuteMatchNoSleepAfterLast(c) ==
    /\ pc[c] = "reading"
    /\ method[c] = "GET"
    /\ \E ok \in BOOLEAN :
         LET out == HandleResponse(resp[c].status, ReadText(resp[c].body, ok))
         IN  /\ readOk' = [readOk EXCEPT ![c] = ok]
             /\ IF out.kind = "RateLimit"
                THEN /\ retries' = [retries EXCEPT ![c] = @ - 1]
                     /\ pc' = [pc EXCEPT ![c] = IF retries[c] > 1 THEN "sleeping" ELSE "loop"]
                     /\ UNCHANGED result
                ELSE /\ result' = [result EXCEPT ![c] = out]
                     /\ pc' = [pc EXCEPT ![c] = "done"]
                     /\ UNCHANGED retries
    /\ log' = Logged(c, ResponseEv(resp[c].status))
    /\ UNCHANGED <<util, client, method, body, reqOk, resp>>

\* Mutant of ExecuteMatch: the RateLimit arm loops again without the sleep.
ExecuteMatchNoSleep(c) ==
    /\ pc[c] = "reading"
    /\ method[c] = "GET"
    /\ \E ok \in BOOLEAN :
         LET out == HandleResponse(resp[c].status, ReadText(resp[c].body, ok))
         IN  /\ readOk' = [readOk EXCEPT ![c] = ok]
             /\ IF out.kind = "RateLimit"
                THEN /\ retries' = [retries EXCEPT ![c] = @ - 1]
                     /\ pc' = [pc EXCEPT ![c] = "loop"]
                     /\ UNCHANGED result
                ELSE /\ result' = [result EXCEPT ![c] = out]
                     /\ pc' = [pc EXCEPT ![c] = "done"]
                     /\ UNCHANGED retries
    /\ log' = Logged(c, ResponseEv(resp[c].status))
    /\ UNCHANGED <<util, client, method, body, reqOk, resp>>

\* handle_response returns and execute_request matches on its result:
\* Ok and every error but RateLimit are returned, RateLimit counts one
\* retry down and sleeps.
ExecuteMatch(c) ==
    /\ pc[c] = "reading"
    /\ method[c] = "GET"
    /\ \E ok \in BOOLEAN :
         LET out == HandleResponse(resp[c].status, ReadText(resp[c].body, ok))
         IN  /\ readOk' = [readOk EXCEPT ![c] = ok]
             /\ IF out.kind = "RateLimit"
                THEN /\ retries' = [retries EXCEPT ![c] = @ - 1]
                     /\ pc' = [pc EXCEPT ![c] = "sleeping"]
                     /\ UNCHANGED result
                ELSE /\ result' = [result EXCEPT ![c] = out]
                     /\ pc' = [pc EXCEPT ![c] = "done"]
                     /\ UNCHANGED retries
    /\ log' = Logged(c, ResponseEv(resp[c].status))
    /\ UNCHANGED <<util, client, method, body, reqOk, resp>>

\* sleep(Duration::from_secs(2)).await completes; the loop tests retries again.
SleepDone(c) ==
    /\ pc[c] = "sleeping"
    /\ log' = Logged(c, SleepEv)
    /\ pc' = [pc EXCEPT ![c] = "loop"]
    /\ UNCHANGED <<util, client, method, body, reqOk, retries, resp, readOk, result>>

\* ----------------------------------------------------------- ApiClient::post

\* Mutant of PostSerializeFail: the failure of to_string is only logged and
\* post goes on to send().
PostSerializeFailOnlyLogged(c) ==
    /\ pc[c] = "idle"
    /\ method' = [method EXCEPT ![c] = "POST"]
    /\ body' = [body EXCEPT ![c] = "Unserializable"]
    /\ reqOk' = [reqOk EXCEPT ![c] = FALSE]
    /\ result' = [result EXCEPT ![c] = Network]
    /\ log' = Logged(c, ErrorEv)
    /\ pc' = [pc EXCEPT ![c] = "done"]
    /\ UNCHANGED <<util, client, retries, resp, readOk>>

\* request.json(body) and serde_json::to_string(body) fail for a body that
\* does not serialize: Err(DeserializeError), whatever the builder held.
PostSerializeFail(c) ==
    /\ pc[c] = "idle"
    /\ method' = [method EXCEPT ![c] = "POST"]
    /\ body' = [body EXCEPT ![c] = "Unserializable"]
    /\ reqOk' = [reqOk EXCEPT ![c] = FALSE]
    /\ result' = [result EXCEPT ![c] = DeserializeError]
    /\ pc' = [pc EXCEPT ![c] = "done"]
    /\ UNCHANGED <<util, client, retries, resp, readOk, log>>

\* The body is absent or serializes and the builder holds a request:
\* request.send() hands it to the transport.
PostSend(c) ==
    /\ pc[c] = "idle"
    /\ method' = [method EXCEPT ![c] = "POST"]
    /\ \E b \in PostBodies \ {"Unserializable"} : body' = [body EXCEPT ![c] = b]
    /\ reqOk' = [reqOk EXCEPT ![c] = TRUE]
    /\ log' = Logged(c, SendEv)
    /\ pc' = [pc EXCEPT ![c] = "sending"]
    /\ UNCHANGED <<util, client, retries, resp, readOk, result>>

\* The body is absent or serializes but the builder holds an error (the URL
\* or a header did not build): send() resolves to that error without
\* reaching the transport, and map_err makes it Network.
PostBuilderError(c) ==
    /\ pc[c] = "idle"
    /\ method' = [method EXCEPT ![c] = "POST"]
    /\ \E b \in PostBodies \ {"Unserializable"} : body' = [body EXCEPT ![c] = b]
    /\ reqOk' = [reqOk EXCEPT ![c] = FALSE]
    /\ result' = [result EXCEPT ![c] = Network]
    /\ log' = Logged(c, ErrorEv)
    /\ pc' = [pc EXCEPT ![c] = "done"]
    /\ UNCHANGED <<util, client, retries, resp, readOk>>

\* post returns handle_response's result as it is.
PostReturn(c) ==
    /\ pc[c] = "reading"
    /\ method[c] = "POST"
    /\ \E ok \in BOOLEAN :
         /\ readOk' = [readOk EXCEPT ![c] = ok]
         /\ result' = [result EXCEPT ![c] =
                HandleResponse(resp[c].status, ReadText(resp[c].body, ok))]
    /\ log' = Logged(c, ResponseEv(resp[c].status))
    /\ pc' = [pc EXCEPT ![c] = "done"]
    /\ UNCHANGED <<util, client, method, body, reqOk, retries, resp>>

Next ==
    \E c \in Calls :
        \/ Get(c)
        \/ LoopSend(c)
        \/ LoopCloneFail(c)
        \/ LoopExhausted(c)
        \/ SendError(c)
        \/ SendResponse(c)
        \/ ExecuteMatch(c)
        \/ SleepDone(c)
        \/ PostSerializeFail(c)
        \/ PostSend(c)
        \/ PostBuilderError(c)
        \/ PostReturn(c)

Spec == Init /\ [][Next]_vars

\* ------------------------------------------- the standalone operations
\*
\* The operations that are functions of their arguments (the URL get and
\* post build, serialize_params, deserialize_response, the Debug renderings
\* and the request logged) are studied on their own: UtilInit draws the
\* arguments and one action applies each operation.  No call runs meanwhile.

callVars == <<pc, method, body, reqOk, retries, resp, readOk, result, log>>

\* get / post build the URL from the client's base_url and the endpoint.
UrlInputs ==
    { [op |-> "url", done |-> FALSE, base |-> b, endpoint |-> e, url |-> << >>] :
        b \in UrlBases, e \in Endpoints }

BuildUrl ==
    /\ util.op = "url"
    /\ ~util.done
    /\ util' = [util EXCEPT !.done = TRUE, !.url = Url(client.base_url, util.endpoint)]
    /\ UNCHANGED <<client, callVars>>

\* serialize_params on a parameter object, under either build of serde_json.
ParamsInputs ==
    { [op |-> "params", done |-> FALSE, fields |-> f, preserve_order |-> po, pairs |-> << >>] :
        f \in ParamObjects, po \in BOOLEAN }

ApplySerializeParams ==
    /\ util.op = "params"
    /\ ~util.done
    /\ util' = [util EXCEPT !.done = TRUE,
                            !.pairs = SerializeParams(util.fields, util.preserve_order)]
    /\ UNCHANGED <<client, callVars>>

\* Two strategies that differ in the secret only, rendered with {:?} as
\* themselves and as dyn AuthStrategy.
DebugInputs ==
    { [op |-> "debug", done |-> FALSE, auth1 |-> a, auth2 |-> WithSecret(a, s2),
       fmt1 |-> "", fmt2 |-> "", dyn1 |-> "", dyn2 |-> ""] :
        a \in UNION { Strategies(s1) : s1 \in Secrets }, s2 \in Secrets }

ApplyFmtDebug ==
    /\ util.op = "debug"
    /\ ~util.done
    /\ util' = [util EXCEPT !.done = TRUE,
                            !.fmt1 = FmtDebug(util.auth1), !.fmt2 = FmtDebug(util.auth2),
                            !.dyn1 = FmtDebugDyn(util.auth1), !.dyn2 = FmtDebugDyn(util.auth2)]
    /\ UNCHANGED <<client, callVars>>

\* Two runs of get or post that differ in the secret of the strategy only.
LogInputs ==
    { [op |-> "log", done |-> FALSE, verb |-> v, auth1 |-> a, auth2 |-> WithSecret(a, s2),
       log1 |-> << >>, log2 |-> << >>] :
        v \in {"GET", "POST"}, a \in UNION { Strategies(s1) : s1 \in Secrets }, s2 \in Secrets }

ApplyLogOutput ==
    /\ util.op = "log"
    /\ ~util.done
    /\ util' = [util EXCEPT !.done = TRUE,
                            !.log1 = LogOutput(util.verb, util.auth1),
                            !.log2 = LogOutput(util.verb, util.auth2)]
    /\ UNCHANGED <<client, callVars>>

\* deserialize_response on an already parsed response.
DeserializeInputs ==
    { [op |-> "deserialize", done |-> FALSE, response |-> v, result |-> NoResult] :
        v \in ResponseValues }

ApplyDeserializeResponse ==
    /\ util.op = "deserialize"
    /\ ~util.done
    /\ util' = [util EXCEPT !.done = TRUE, !.result = DeserializeResponse(util.response)]
    /\ UNCHANGED <<client, callVars>>

UtilInputs == UrlInputs \cup ParamsInputs \cup DebugInputs \cup LogInputs \cup DeserializeInputs

UtilInit ==
    /\ util \in UtilInputs
    /\ client \in { New(b, a) : b \in (IF util.op = "url" THEN {util.base} ELSE BaseUrlInputs),
                                a \in AuthKinds }
    /\ pc = [c \in Calls |-> "idle"]
    /\ method = [c \in Calls |-> "none"]
    /\ body = [c \in Calls |-> "None"]
    /\ reqOk = [c \in Calls |-> TRUE]
    /\ retries = [c \in Calls |-> 0]
    /\ resp = [c \in Calls |-> NoResponse]
    /\ readOk = [c \in Calls |-> TRUE]
    /\ result = [c \in Calls |-> NoResult]
    /\ log = [c \in Calls |-> << >>]

UtilNext ==
    \/ BuildUrl
    \/ ApplySerializeParams
    \/ ApplyFmtDebug
    \/ ApplyLogOutput
    \/ ApplyDeserializeResponse

UtilSpec == UtilInit /\ [][UtilNext]_vars

\* ------------------------------------------------------ reading the history

IsGet(c) == method[c] = "GET"
IsPost(c) == method[c] = "POST"

EventsOf(c, ev) == { i \in 1..Len(log[c]) : log[c][i].ev = ev }

\* Requests call c handed to the transport, and backoff sleeps it completed.
Sent(c) == Cardinality(EventsOf(c, "send"))
Sleeps(c) == Cardinality(EventsOf(c, "sleep"))

\* The statuses of the responses call c has handled, in order.
StatusesOf(c) ==
    LET r == SelectSeq(log[c], LAMBDA e : e.ev = "response")
    IN  [i \in 1..Len(r) |-> r[i].status]

RateLimited(c) ==
    Cardinality({ i \in EventsOf(c, "response") : log[c][i].status = 429 })

\* The last response or transport error of call c before position i, 0 if none.
LastOutcomeBefore(c, i) ==
    LET o == { j \in 1..(i - 1) : log[c][j].ev \in {"response", "error"} }
    IN  IF o = {} THEN 0 ELSE CHOOSE j \in o : \A k \in o : k <= j

\* The body text handle_response worked with for the last response of call c.
TextRead(c) == IF readOk[c] THEN resp[c].body ELSE "Failed to read response body"

Returned(c) == pc[c] = "done"

\* -------------------------------------------------------------------- claims

\* C1: one get call sends at most 3 requests; a request after the first is
\* sent only when the outcome of the attempt before it was a 429 response;
\* the remaining-attempts counter starts at 3 and has gone down by exactly
\* one for each 429 response handled, and for nothing else.
C1_BoundedRetryOnlyOnRateLimit ==
    \A c \in Calls : IsGet(c) =>
        /\ Sent(c) <= 3
        /\ \A i \in EventsOf(c, "send") :
              LastOutcomeBefore(c, i) = 0
              \/ /\ log[c][LastOutcomeBefore(c, i)].ev = "response"
                 /\ log[c][LastOutcomeBefore(c, i)].status = 429
        /\ \A i \in EventsOf(c, "send") :
              LastOutcomeBefore(c, i) = 0 => \A j \in 1..(i - 1) : log[c][j].ev # "send"
        /\ retries[c] + RateLimited(c) = 3

\* A get call that sent its third request after two 429 responses.
C1_Witness ==
    \E c \in Calls :
        /\ IsGet(c)
        /\ Sent(c) = 3
        /\ RateLimited(c) = 2
        /\ retries[c] = 1

\* C2 as stated: a get call answered 429 and then two more 429 (the server
\* would answer the next request with a success) returns the success payload.
C2_Original ==
    \A c \in Calls :
        (IsGet(c) /\ Returned(c) /\ StatusesOf(c) = <<429, 429, 429>>)
            => result[c].kind = "Ok"

\* C2 amended: a get call answered 429, one more 429 and then a success
\* with a body of the expected type is retried exactly twice (3 requests,
\* 2 sleeps) and returns the payload of that third response; while only 429
\* responses have come, at most two of them, the call has not returned.
C2_TwoRateLimitsThenSuccess ==
    \A c \in Calls : IsGet(c) =>
        /\ (/\ Len(StatusesOf(c)) = 3
            /\ StatusesOf(c)[1] = 429
            /\ StatusesOf(c)[2] = 429
            /\ StatusesOf(c)[3] \in {200, 201}
            /\ TextRead(c) \in {BodyA, BodyB})
            => /\ Returned(c)
               /\ Sent(c) = 3
               /\ Sleeps(c) = 2
               /\ result[c].kind = "Ok"
               /\ result[c].value =
                    (IF TextRead(c) = BodyA THEN [name |-> "a", age |-> 30]
                                            ELSE [name |-> "b", age |-> 7])
        /\ (StatusesOf(c) \in {<<429>>, <<429, 429>>} /\ log[c][Len(log[c])].ev # "error")
            => (~Returned(c) /\ result[c] = NoResult)

C2_Witness ==
    \E c \in Calls :
        /\ IsGet(c)
        /\ StatusesOf(c) = <<429, 429, 200>>
        /\ result[c] = Ok([name |-> "a", age |-> 30])
        /\ Sent(c) = 3

\* C3: a get call all of whose attempts were answered 429 returns
\* MaxRetriesReached, after 3 requests; and no get call ever returns the
\* RateLimit kind.
C3_ExhaustedIsMaxRetriesReached ==
    \A c \in Calls : IsGet(c) =>
        /\ result[c].kind # "RateLimit"
        /\ (/\ Returned(c)
            /\ EventsOf(c, "error") = {}
            /\ Len(StatusesOf(c)) > 0
            /\ \A i \in 1..Len(StatusesOf(c)) : StatusesOf(c)[i] = 429)
            => (result[c] = MaxRetriesReached /\ Sent(c) = 3)
        /\ result[c] = MaxRetriesReached => StatusesOf(c) = <<429, 429, 429>>

C3_Witness ==
    \E c \in Calls :
        /\ IsGet(c)
        /\ Returned(c)
        /\ StatusesOf(c) = <<429, 429, 429>>
        /\ result[c] = MaxRetriesReached

\* C4 as stated: post retries like get, so a post answered 429 has not
\* returned after that one request and never returns RateLimit.
C4_PostRetriesLikeGet ==
    \A c \in Calls : IsPost(c) =>
        /\ result[c].kind # "RateLimit"
        /\ (StatusesOf(c) = <<429>> => ~Returned(c))

\* C5: a response whose status is neither 2xx nor 429 ends the call (get or
\* post) at once with ApiError of that status and of the body text read
\* (the body sent, or the placeholder when it could not be read): it is the
\* last event of the call, it follows the send of its attempt directly, and
\* no sleep or send comes after it, earlier 429 attempts or not.
C5_OtherStatusIsApiErrorNoRetry ==
    \A c \in Calls : \A i \in EventsOf(c, "response") :
        (~(log[c][i].status >= 200 /\ log[c][i].status <= 299) /\ log[c][i].status # 429)
            => /\ i = Len(log[c])
               /\ log[c][i - 1].ev = "send"
               /\ Returned(c)
               /\ result[c].kind = "ApiError"
               /\ result[c].status = log[c][i].status
               /\ result[c].status = resp[c].status
               /\ result[c].body = TextRead(c)
               /\ Sleeps(c) = RateLimited(c)
               /\ Sent(c) = RateLimited(c) + 1

\* A get call answered 429 and then 500, and a post answered 404.
C5_Witness ==
    \E c, d \in Calls :
        /\ IsGet(c)
        /\ StatusesOf(c) = <<429, 500>>
        /\ result[c] = ApiError(500, BodyMalformed)
        /\ IsPost(d)
        /\ result[d] = ApiError(404, BodyA)

\* C6: a transport failure of a send ends the call (get or post) at once
\* with Network: the error is the last event of the call, so no request and
\* no sleep follows it, and the counter is as the last 429 left it.
C6_SendFailureIsNetwork ==
    \A c \in Calls : \A i \in EventsOf(c, "error") :
        /\ i = Len(log[c])
        /\ Returned(c)
        /\ result[c] = Network
        /\ reqOk[c] => log[c][i - 1].ev = "send"
        /\ IsGet(c) => retries[c] + RateLimited(c) = 3
        /\ Sleeps(c) = RateLimited(c)

\* A get call whose third send failed, and a post whose send failed.
C6_Witness ==
    \E c, d \in Calls :
        /\ IsGet(c)
        /\ StatusesOf(c) = <<429, 429>>
        /\ Sent(c) = 3
        /\ result[c] = Network
        /\ IsPost(d)
        /\ Sent(d) = 1
        /\ result[d] = Network

\* C7: a 2xx response whose body text is not a value of the expected type
\* ends the call with JsonParse (not ApiError, not RateLimit) and nothing
\* follows it; a 2xx response is never followed by a sleep or a send.
C7_BadSuccessBodyIsJsonParse ==
    \A c \in Calls : \A i \in EventsOf(c, "response") :
        (log[c][i].status >= 200 /\ log[c][i].status <= 299)
            => /\ i = Len(log[c])
               /\ Returned(c)
               /\ TextRead(c) \notin {BodyA, BodyB} => result[c] = JsonParse
               /\ result[c].kind \in {"Ok", "JsonParse"}

\* A get call answered 429 and then 200 with the malformed body {"name": }.
C7_Witness ==
    \E c \in Calls :
        /\ IsGet(c)
        /\ StatusesOf(c) = <<429, 200>>
        /\ resp[c].body = BodyMalformed
        /\ readOk[c]
        /\ result[c] = JsonParse

\* C8 as stated: a get call whose request cannot be cloned returns a typed
\* error: the call does not abort.
C8_CloneFailureIsTypedError ==
    \A c \in Calls : (IsGet(c) /\ ~reqOk[c]) => pc[c] # "panicked"

\* C9 as stated: a body that cannot be read does not by itself make the call
\* fail: for every status, 2xx included, the call returns the kind of result
\* it returns for the same response with the body read.
C9_Original ==
    \A c \in Calls :
        (/\ Returned(c)
         /\ Len(log[c]) > 0
         /\ log[c][Len(log[c])].ev = "response"
         /\ ~readOk[c])
            => result[c].kind = HandleResponse(resp[c].status, resp[c].body).kind

\* C9 amended: a body that cannot be read is replaced by the placeholder
\* and is no error of its own.  For a status that is not 2xx the call goes on
\* as with a body read: ApiError of that status carrying the placeholder,
\* or for 429 the retry of get and RateLimit carrying the placeholder from
\* post.  For a 2xx status the placeholder is no JSON and the call returns
\* JsonParse.
C9_UnreadBodyIsPlaceholder ==
    \A c \in Calls :
        (Len(log[c]) > 0 /\ log[c][Len(log[c])].ev = "response" /\ ~readOk[c])
            => LET st == resp[c].status
               IN  /\ st = log[c][Len(log[c])].status
                   /\ (st >= 200 /\ st <= 299) => (Returned(c) /\ result[c] = JsonParse)
                   /\ (st = 429 /\ IsGet(c)) => (pc[c] = "sleeping" /\ result[c] = NoResult)
                   /\ (st = 429 /\ IsPost(c)) =>
                        (Returned(c) /\ result[c] = RateLimit("Failed to read response body"))
                   /\ (st # 429 /\ ~(st >= 200 /\ st <= 299)) =>
                        (Returned(c) /\ result[c] = ApiError(st, "Failed to read response body"))

\* A get call whose 500 response could not be read, and a post whose 200
\* response with a good body could not be read.
C9_Witness ==
    \E c, d \in Calls :
        /\ IsGet(c)
        /\ ~readOk[c]
        /\ result[c] = ApiError(500, "Failed to read response body")
        /\ IsPost(d)
        /\ ~readOk[d]
        /\ resp[d] = [status |-> 200, body |-> BodyA]
        /\ result[d] = JsonParse

\* C10: a post whose body does not serialize returns DeserializeError, has
\* sent nothing, and nothing more happens in the call.
C10_UnserializableBodyNotSent ==
    \A c \in Calls : (IsPost(c) /\ body[c] = "Unserializable") =>
        /\ Returned(c)
        /\ result[c] = DeserializeError
        /\ log[c] = << >>

C10_Witness ==
    \E c \in Calls :
        /\ IsPost(c)
        /\ body[c] = "Unserializable"
        /\ result[c] = DeserializeError

\* C11: the stored base_url never ends with '/', whatever number of '/'
\* the argument of new() ended with; and the URL built from an endpoint with
\* any number of leading '/' is the stored base_url, one '/', and the
\* endpoint without its leading '/': one '/' exactly at the seam.
C11_OneSlashAtTheSeam ==
    /\ Len(client.base_url) > 0 => client.base_url[Len(client.base_url)] # "/"
    /\ (util.op = "url" /\ util.done) =>
         \E i \in 0..Len(util.base), j \in 0..Len(util.endpoint) :
            LET stored == SubSeq(util.base, 1, Len(util.base) - i)
                rest == SubSeq(util.endpoint, j + 1, Len(util.endpoint))
                k == Len(stored)
            IN  /\ util.base = stored \o Slashes(i)
                /\ util.endpoint = Slashes(j) \o rest
                /\ stored = client.base_url
                /\ Len(rest) > 0 => rest[1] # "/"
                /\ Len(util.url) = k + 1 + Len(rest)
                /\ SubSeq(util.url, 1, k) = stored
                /\ util.url[k + 1] = "/"
                /\ SubSeq(util.url, k + 2, Len(util.url)) = rest
                /\ k > 0 => util.url[k] # "/"
                /\ Len(util.url) > k + 1 => util.url[k + 2] # "/"

\* The URL of base_url "h//" and endpoint "//a/b" is "h/a/b".
C11_Witness ==
    /\ util.op = "url"
    /\ util.done
    /\ util.base = <<"h", "/", "/">>
    /\ util.endpoint = <<"/", "/", "a", "/", "b">>
    /\ util.url = <<"h", "/", "a", "/", "b">>

\* C12 as stated: serialize_params returns one pair for each string, bool
\* and number field, none for the other fields, and the pairs stand in the
\* order of the fields of the parameter object.
C12_PairsInFieldOrder ==
    (util.op = "params" /\ util.done) =>
        LET scalar == SelectSeq(util.fields,
                        LAMBDA k : k \in {"q", "page", "limit", "active"})
            text(k) == CASE k = "q" -> "x" [] k = "page" -> "2"
                         [] k = "limit" -> "30" [] k = "active" -> "true"
        IN  util.pairs = [i \in 1..Len(scalar) |-> <<scalar[i], text(scalar[i])>>]

\* C13: the {:?} rendering of a HeaderAuth, of a BearerAuth and of a dyn
\* AuthStrategy does not depend on the secret: two strategies that differ in
\* the secret only render the same, as the type name, the header name or
\* `token`, and the mask.
C13_DebugIndependentOfSecret ==
    (util.op = "debug" /\ util.done) =>
        /\ util.fmt1 = util.fmt2
        /\ util.dyn1 = util.dyn2
        /\ util.dyn1 = "AuthStrategy"
        /\ util.auth1.kind = "BearerAuth" => util.fmt1 = "BearerAuth { token: \"***\" }"
        /\ util.auth1.kind = "HeaderAuth" =>
              util.fmt1 \in { "HeaderAuth { x-api-key: \"***\" }",
                              "HeaderAuth { authorization: \"***\" }" }

\* A HeaderAuth with key s3cret and one with key hunter2, both rendered.
C13_Witness ==
    /\ util.op = "debug"
    /\ util.done
    /\ util.auth1 = HeaderAuth("x-api-key", "s3cret")
    /\ util.auth2 = HeaderAuth("x-api-key", "hunter2")
    /\ util.fmt2 = "HeaderAuth { x-api-key: \"***\" }"

\* C19 as stated: what get and post log does not depend on the credential:
\* two runs that differ in the secret only write the same log.
C19_LogIndependentOfSecret ==
    (util.op = "log" /\ util.done) => util.log1 = util.log2

\* Everything call c keeps on its own stack, with its history.
LocalsOf(c) ==
    <<pc[c], method[c], body[c], reqOk[c], retries[c], resp[c], readOk[c], result[c], log[c]>>

\* What a get call that has returned must have returned, read from its own
\* history and its own last response alone.
ResultFromOwnHistory(c) ==
    IF log[c][Len(log[c])].ev = "error" THEN Network
    ELSE IF log[c][Len(log[c])].ev = "sleep" THEN MaxRetriesReached
    ELSE HandleResponse(resp[c].status, TextRead(c))

\* C14: two get calls running concurrently on one client, under every
\* interleaving: each call has its own budget of 3 attempts (its counter is
\* 3 minus the 429 responses it handled itself, it sends one request per
\* response it received, at most 3), the result it returns is the one its
\* own responses give, a step of one call changes nothing of the other
\* call, and no step changes the client's base_url or auth strategy.
C14_CallsDoNotInterfere ==
    /\ [](\A c \in Calls : IsGet(c) =>
            /\ retries[c] + RateLimited(c) = 3
            /\ Sent(c) <= 3
            /\ Sent(c) = Cardinality(EventsOf(c, "response")) + Cardinality(EventsOf(c, "error"))
                            + (IF pc[c] \in {"sending", "reading"} THEN 1 ELSE 0)
            /\ (Returned(c) /\ Len(log[c]) > 0) => result[c] = ResultFromOwnHistory(c)
            /\ ~Returned(c) => result[c] = NoResult)
    /\ [][/\ client' = client
          /\ \A c, d \in Calls :
                (c # d /\ LocalsOf(c)' # LocalsOf(c)) => LocalsOf(d)' = LocalsOf(d)]_vars

\* Two get calls in flight at once: one has used two attempts of its budget
\* and sleeps, the other waits for its first response with its budget whole.
C14_Witness ==
    \E c, d \in Calls :
        /\ c # d
        /\ IsGet(c) /\ IsGet(d)
        /\ pc[c] = "sleeping" /\ RateLimited(c) = 2 /\ retries[c] = 1
        /\ pc[d] = "sending" /\ Sent(d) = 1 /\ retries[d] = 3

\* C16: a get call has returned the success payload exactly when, of at
\* most three responses it received, the last is a 2xx whose body as read
\* parses and every response before it was 429; the payload is the value
\* parsed from that body and the number of requests sent is the index of
\* that attempt.
C16_SuccessIffFirstNon429Is2xx ==
    \A c \in Calls : IsGet(c) =>
        LET st == StatusesOf(c)
            n == Len(st)
            succeeded ==
                /\ n \in 1..3
                /\ st[n] >= 200 /\ st[n] < 300
                /\ TextRead(c) \in {BodyA, BodyB}
                /\ \A i \in 1..(n - 1) : st[i] = 429
        IN  /\ result[c].kind = "Ok" <=> succeeded
            /\ succeeded =>
                  /\ Returned(c)
                  /\ Sent(c) = n
                  /\ result[c].value =
                        (IF TextRead(c) = BodyA THEN [name |-> "a", age |-> 30]
                                                ELSE [name |-> "b", age |-> 7])

\* A get call that succeeded at its second attempt with a 201, and one that
\* did not succeed because its 200 came with a body that does not parse.
C16_Witness ==
    \E c, d \in Calls :
        /\ IsGet(c) /\ StatusesOf(c) = <<429, 201>> /\ Sent(c) = 2
        /\ result[c] = Ok([name |-> "b", age |-> 7])
        /\ IsGet(d) /\ StatusesOf(d) = <<200>> /\ result[d] = JsonParse

\* C17: in a get call every 429 response is followed by one sleep of 2
\* seconds and by nothing else first (the call is in that sleep while it is
\* the last event); every sleep follows a 429 response; every request after
\* the first follows, in this order, a request, its 429 response and one
\* sleep; and a call that returned MaxRetriesReached made 3 requests and 3
\* sleeps, the last sleep after the third response and before the return.
C17_OneSleepAfterEachRateLimit ==
    \A c \in Calls : IsGet(c) =>
        LET h == log[c]
            n == Len(h)
            Is429(i) == h[i].ev = "response" /\ h[i].status = 429
        IN  /\ \A i \in 1..n : Is429(i) =>
                  IF i = n THEN pc[c] = "sleeping"
                  ELSE h[i + 1] = [ev |-> "sleep", secs |-> 2]
            /\ pc[c] = "sleeping" => (n > 0 /\ Is429(n))
            /\ \A i \in 1..n : h[i].ev = "sleep" => (i > 1 /\ Is429(i - 1))
            /\ \A i \in 1..n : (h[i].ev = "send" /\ i > 1) =>
                  /\ i > 3
                  /\ h[i - 1].ev = "sleep"
                  /\ Is429(i - 2)
                  /\ h[i - 3].ev = "send"
            /\ result[c] = MaxRetriesReached =>
                  /\ Sent(c) = 3
                  /\ Sleeps(c) = 3
                  /\ n = 9
                  /\ h[n].ev = "sleep"
                  /\ Is429(n - 1)

\* A get call that returned MaxRetriesReached after its third sleep.
C17_Witness ==
    \E c \in Calls :
        /\ IsGet(c)
        /\ Returned(c)
        /\ result[c] = MaxRetriesReached
        /\ Sleeps(c) = 3
        /\ log[c][Len(log[c])] = SleepEv

\* C18 as stated: every get call returns a result in the end, whatever the
\* server answers.  In the form of runs that stop: a get call that has not
\* returned can always take a step.
C18_GetAlwaysReturns ==
    \A c \in Calls : IsGet(c) =>
        \/ Returned(c)
        \/ ENABLED (\/ LoopSend(c) \/ LoopCloneFail(c) \/ LoopExhausted(c)
                    \/ SendError(c) \/ SendResponse(c)
                    \/ ExecuteMatch(c) \/ SleepDone(c))

\* C15: deserialize_response::<User> on a parsed value.  A value that is a
\* User (an object with a string `name` and an `address` object with a
\* number `zip`) decodes to that User.  Any other value gives
\* DeserializeError, never JsonParse, and its message is a serde message
\* behind the path of a place where the value is not what User has there:
\* `name`, `address`, `address.zip`, or no path for the value itself.
C15_DeserializeErrorCarriesPath ==
    (util.op = "deserialize" /\ util.done) =>
        LET v == util.response
            Has(o, k) == o.t = "Object" /\ \E i \in 1..Len(o.fields) : o.fields[i].key = k
            At(o, k) == o.fields[CHOOSE i \in 1..Len(o.fields) : o.fields[i].key = k].value
            atRoot == ~Has(v, "name") \/ ~Has(v, "address")
            atName == Has(v, "name") /\ At(v, "name").t # "String"
            atAddress == Has(v, "address") /\ ~Has(At(v, "address"), "zip")
            atZip == /\ Has(v, "address")
                     /\ Has(At(v, "address"), "zip")
                     /\ At(At(v, "address"), "zip").t # "Number"
            serde == { "invalid type: " \o u \o ", expected " \o e :
                          u \in { "string \"x\"", "integer '7'", "integer '30'", "null", "map" },
                          e \in { "a string", "u32", "struct User", "struct Address" } }
                     \cup { "missing field '" \o k \o "'" : k \in { "name", "address", "zip" } }
        IN  IF ~(atRoot \/ atName \/ atAddress \/ atZip)
            THEN util.result =
                    Ok([name |-> At(v, "name").v,
                        address |-> [zip |-> IF At(At(v, "address"), "zip").v = "7"
                                             THEN 7 ELSE 30]])
            ELSE /\ util.result.kind = "DeserializeError"
                 /\ util.result # JsonParse
                 /\ \/ atRoot /\ util.result.msg \in serde
                    \/ atName /\ util.result.msg \in { "name: " \o m : m \in serde }
                    \/ atAddress /\ util.result.msg \in { "address: " \o m : m \in serde }
                    \/ atZip /\ util.result.msg \in { "address.zip: " \o m : m \in serde }

\* A response whose address.zip is a string: the message names address.zip.
C15_Witness ==
    /\ util.op = "deserialize"
    /\ util.done
    /\ util.response = JObject(<< Entry("address", JObject(<< Entry("zip", JString("x")) >>)),
                                 Entry("name", JString("x")) >>)
    /\ util.result = DeserializeErrorWith(
                        "address.zip: invalid type: string \"x\", expected u32")

=============================================================================
